---------------------------- MODULE Spec2Model ----------------------------
(***************************************************************************)
(* A model of rendergit.mjs: the file classifier (decideFile/looksBinary), *)
(* the history age resolver (gatherOldestCommitTimes), the hierarchical    *)
(* orderer (orderInfosByOldest) and the ordering part of buildHtml.        *)
(*                                                                         *)
(* Strings are sequences of one-character strings, so that startsWith,     *)
(* includes, toLowerCase, extname, trim, Number() and localeCompare are    *)
(* computed on characters as the code computes them.                       *)
(***************************************************************************)
EXTENDS Integers, Sequences, FiniteSets, TLC

(***************************************************************************)
(* Characters and strings                                                  *)
(***************************************************************************)

LowerLetters ==
    <<"a","b","c","d","e","f","g","h","i","j","k","l","m",
      "n","o","p","q","r","s","t","u","v","w","x","y","z">>

UpperLetters ==
    <<"A","B","C","D","E","F","G","H","I","J","K","L","M",
      "N","O","P","Q","R","S","T","U","V","W","X","Y","Z">>

Digits == <<"0","1","2","3","4","5","6","7","8","9">>

\* The position of c in the sequence s, 0 when absent.
IndexIn(s, c) ==
    IF \E i \in 1..Len(s) : s[i] = c
    THEN CHOOSE i \in 1..Len(s) : s[i] = c
    ELSE 0

\* The characters of the modelled strings.
Characters ==
    { LowerLetters[i] : i \in 1..26 } \cup { UpperLetters[i] : i \in 1..26 }
    \cup { Digits[i] : i \in 1..10 } \cup {" ", "_", "-", ".", "/", "\r", "\t", "\n"}

\* The lower-case form of every character.
LowerCaseOf ==
    [c \in Characters |->
        IF IndexIn(UpperLetters, c) > 0 THEN LowerLetters[IndexIn(UpperLetters, c)] ELSE c]

\* String.prototype.toLowerCase, one character.
LowerChar(c) == LowerCaseOf[c]

\* String.prototype.toLowerCase.
ToLowerCase(s) == [i \in 1..Len(s) |-> LowerChar(s[i])]

\* String.prototype.startsWith.
StartsWith(s, prefix) ==
    /\ Len(prefix) <= Len(s)
    /\ SubSeq(s, 1, Len(prefix)) = prefix

\* String.prototype.includes.
Includes(s, part) ==
    \E i \in 1..(Len(s) - Len(part) + 1) : SubSeq(s, i, i + Len(part) - 1) = part

\* Array.prototype.join("/") over path segments.
RECURSIVE JoinSlash(_)
JoinSlash(segs) ==
    IF segs = <<>> THEN <<>>
    ELSE IF Len(segs) = 1 THEN segs[1]
    ELSE segs[1] \o <<"/">> \o JoinSlash(Tail(segs))

\* String.prototype.split("/").
RECURSIVE SplitSlash(_)
SplitSlash(s) ==
    IF IndexIn(s, "/") = 0 THEN <<s>>
    ELSE <<SubSeq(s, 1, IndexIn(s, "/") - 1)>>
         \o SplitSlash(SubSeq(s, IndexIn(s, "/") + 1, Len(s)))

\* null / undefined: an optional number is <<>> or <<n>>.
Null == <<>>

Some(n) == <<n>>

\* new Map(): a Map is a function from its keys.
EmptyMap == <<>>

(***************************************************************************)
(* localeCompare(b, "en", {sensitivity: "base"}): the comparison of the    *)
(* primary collation weights, which ignores letter case and ranks          *)
(* whitespace before punctuation before digits before letters.             *)
(***************************************************************************)

CollationOrder == <<" ", "_", "-", ".", "/">> \o Digits \o LowerLetters

\* The primary weight of every character: its rank in the collation order.
PrimaryWeightOf == [c \in Characters |-> IndexIn(CollationOrder, LowerChar(c))]

PrimaryWeight(c) == PrimaryWeightOf[c]

\* Negative, zero or positive, as localeCompare returns.
RECURSIVE LocaleCompare(_, _)
LocaleCompare(a, b) ==
    IF a = <<>> /\ b = <<>> THEN 0
    ELSE IF a = <<>> THEN -1
    ELSE IF b = <<>> THEN 1
    ELSE IF PrimaryWeight(a[1]) # PrimaryWeight(b[1])
         THEN PrimaryWeight(a[1]) - PrimaryWeight(b[1])
    ELSE LocaleCompare(Tail(a), Tail(b))

(***************************************************************************)
(* Array.prototype.sort(cmp) is a stable sort: an element is placed after  *)
(* every element the comparator does not rank strictly after it, so equal  *)
(* elements keep their input order.  One insertion per comparator used.    *)
(***************************************************************************)

\* The comparator of filename mode: a.rel.localeCompare(b.rel, ...).
CompareRel(a, b) == LocaleCompare(a.rel, b.rel)

RECURSIVE InsertByRel(_, _)
InsertByRel(sorted, x) ==
    IF sorted = <<>> THEN <<x>>
    ELSE IF CompareRel(sorted[Len(sorted)], x) <= 0 THEN Append(sorted, x)
    ELSE Append(InsertByRel(SubSeq(sorted, 1, Len(sorted) - 1), x),
                sorted[Len(sorted)])

RECURSIVE SortByRel(_)
SortByRel(s) ==
    IF s = <<>> THEN <<>>
    ELSE InsertByRel(SortByRel(SubSeq(s, 1, Len(s) - 1)), s[Len(s)])

(***************************************************************************)
(* The classifier: decideFile and looksBinary                              *)
(***************************************************************************)

MAX_DEFAULT_BYTES == 50 * 1024

FORCE_TEXT_EXTENSIONS ==
    { <<".","h","t","m","l">>, <<".","h","t","m">>,
      <<".","x","h","t","m","l">>, <<".","s","h","t","m","l">> }

\* The members of the deny-list that the modelled files use.
BINARY_EXTENSIONS ==
    { <<".","p","n","g">>, <<".","p","d","f">>, <<".","b","i","n">> }

LARGE_DATA_EXTENSIONS ==
    { <<".","c","s","v">>, <<".","j","s","o","n">>, <<".","p","e","m">> }

\* The length of the buffer looksBinary reads into: Buffer.alloc(8192).
BUFFER_LENGTH == 8192

\* The index of the last "." of s, 0 when there is none.
LastDot(s) ==
    IF \E i \in 1..Len(s) : s[i] = "."
    THEN CHOOSE i \in 1..Len(s) : s[i] = "." /\ \A j \in (i + 1)..Len(s) : s[j] # "."
    ELSE 0

\* path.extname of a path given by its segments: the part of the last segment
\* from its last ".", empty when there is no "." or the only "." begins the
\* segment, and empty for "..".
ExtName(segs) ==
    LET base == segs[Len(segs)]
        dot  == LastDot(base)
    IN  IF dot <= 1 THEN <<>>
        ELSE IF base = <<".", ".">> THEN <<>>
        ELSE SubSeq(base, dot, Len(base))

\* A file's content is a sequence of runs [kind, n]: n consecutive units of
\* one kind.  "ascii" is a non-zero one-byte character, "zero" the byte 0,
\* "multi2"/"multi3" a well-formed two/three-byte UTF-8 character, "bad" a
\* byte that no UTF-8 text contains.
UnitBytes(kind) ==
    CASE kind = "multi2" -> 2
      [] kind = "multi3" -> 3
      [] OTHER -> 1

RunBytes(run) == run.n * UnitBytes(run.kind)

RECURSIVE ContentBytes(_)
ContentBytes(content) ==
    IF content = <<>> THEN 0
    ELSE RunBytes(content[1]) + ContentBytes(Tail(content))

\* The byte offset at which run i of the content starts.
RunStart(content, i) == ContentBytes(SubSeq(content, 1, i - 1))

\* handle.read(buffer, 0, buffer.length, 0): the number of bytes read.
BytesRead(content) ==
    IF ContentBytes(content) < BUFFER_LENGTH THEN ContentBytes(content) ELSE BUFFER_LENGTH

\* for (i < bytesRead) if (buffer[i] === 0): a zero byte among the bytes read.
ZeroInBuffer(content) ==
    \E i \in 1..Len(content) :
        /\ content[i].kind = "zero"
        /\ content[i].n > 0
        /\ RunStart(content, i) < BytesRead(content)

\* new TextDecoder("utf-8", {fatal: true}).decode(buffer.subarray(0, bytesRead))
\* throws when the bytes read hold an ill-formed byte or end inside a
\* multi-byte character.
DecodeThrows(content) ==
    \E i \in 1..Len(content) :
        /\ content[i].n > 0
        /\ RunStart(content, i) < BytesRead(content)
        /\ \/ content[i].kind = "bad"
           \/ /\ content[i].kind \in {"multi2", "multi3"}
              /\ RunStart(content, i) + RunBytes(content[i]) > BytesRead(content)
              /\ (BytesRead(content) - RunStart(content, i)) % UnitBytes(content[i].kind) # 0

\* looksBinary inspecting the content before it looks at the extension.
LooksBinaryContentFirst(file) ==
    IF ~file.openOk THEN TRUE
    ELSE IF ZeroInBuffer(file.content) \/ DecodeThrows(file.content) THEN TRUE
    ELSE ToLowerCase(ExtName(file.segs)) \in BINARY_EXTENSIONS

\* looksBinary(filePath).  A file is [segs, content, statOk, openOk]; openOk
\* is FALSE when fs.open or the read fails.
LooksBinary(file) ==
    LET ext == ToLowerCase(ExtName(file.segs))
    IN  IF ext \in FORCE_TEXT_EXTENSIONS THEN FALSE
        ELSE IF ext \in BINARY_EXTENSIONS THEN TRUE
        ELSE IF ~file.openOk THEN TRUE
        ELSE IF ZeroInBuffer(file.content) THEN TRUE
        ELSE IF DecodeThrows(file.content) THEN TRUE
        ELSE FALSE

DotGit == <<".","g","i","t">>

\* rel === ".git" || rel.startsWith(".git/") || rel.includes("/.git/")
IsIgnoredRel(rel) ==
    \/ rel = DotGit
    \/ StartsWith(rel, DotGit \o <<"/">>)
    \/ Includes(rel, <<"/">> \o DotGit \o <<"/">>)

\* The size decideFile records: stat.size, or 0 when fs.stat fails.
StatSize(file) == IF file.statOk THEN ContentBytes(file.content) ELSE 0

\* IsTooLarge with the size compared by >= instead of >.
IsTooLargeAtThreshold(file, max) ==
    /\ (IF file.statOk THEN ContentBytes(file.content) ELSE 0) >= max
    /\ ToLowerCase(ExtName(file.segs)) \in LARGE_DATA_EXTENSIONS

\* size > maxBytes && LARGE_DATA_EXTENSIONS.has(ext)
IsTooLarge(file, max) ==
    /\ StatSize(file) > max
    /\ ToLowerCase(ExtName(file.segs)) \in LARGE_DATA_EXTENSIONS

\* decideFile(filePath, repoRoot, maxBytes)
DecideFile(file, max) ==
    LET rel  == JoinSlash(file.segs)
        size == StatSize(file)
    IN  IF IsIgnoredRel(rel)
        THEN [rel |-> rel, size |-> size,
              decision |-> [include |-> FALSE, reason |-> "ignored"]]
        ELSE IF IsTooLarge(file, max)
        THEN [rel |-> rel, size |-> size,
              decision |-> [include |-> FALSE, reason |-> "too_large"]]
        ELSE IF LooksBinary(file)
        THEN [rel |-> rel, size |-> size,
              decision |-> [include |-> TRUE, reason |-> "binary"]]
        ELSE [rel |-> rel, size |-> size,
              decision |-> [include |-> TRUE, reason |-> "ok"]]

(***************************************************************************)
(* The history age resolver: gatherOldestCommitTimes                       *)
(***************************************************************************)

\* The characters String.prototype.trim and the regular expression \s take
\* for white space, among those the modelled output uses.
IsSpace(c) == c \in {" ", "\t", "\r", "\n"}

\* String.prototype.trim.
RECURSIVE Trim(_)
Trim(s) ==
    IF s = <<>> THEN <<>>
    ELSE IF IsSpace(s[1]) THEN Trim(Tail(s))
    ELSE IF IsSpace(s[Len(s)]) THEN Trim(SubSeq(s, 1, Len(s) - 1))
    ELSE s

\* rawLine.replace(/\r$/, "")
StripCR(s) ==
    IF s # <<>> /\ s[Len(s)] = "\r" THEN SubSeq(s, 1, Len(s) - 1) ELSE s

\* The value of a string of decimal digits.
RECURSIVE DecimalValue(_)
DecimalValue(s) ==
    IF s = <<>> THEN 0
    ELSE 10 * DecimalValue(SubSeq(s, 1, Len(s) - 1)) + (IndexIn(Digits, s[Len(s)]) - 1)

\* Number(s) when Number.isFinite holds of it, Null otherwise: white space
\* around the text is dropped, the empty text is 0, a text of decimal digits
\* is its value, and any other text of the modelled output is NaN.
FiniteNumber(s) ==
    LET t == Trim(s)
    IN  IF t = <<>> THEN Some(0)
        ELSE IF \A i \in 1..Len(t) : IndexIn(Digits, t[i]) > 0 THEN Some(DecimalValue(t))
        ELSE Null

\* Map.prototype.set.
MapSet(m, k, v) == [x \in (DOMAIN m) \cup {k} |-> IF x = k THEN v ELSE m[x]]

\* Map.prototype.has.
MapHas(m, k) == k \in DOMAIN m

\* Set.prototype.has, the Set held as the sequence of its insertions.
SetHas(set, x) == \E i \in 1..Len(set) : set[i] = x

\* Set.prototype.delete.
SetDelete(set, x) == SelectSeq(set, LAMBDA y : y # x)

\* Array.from(new Set(relPaths)): the first occurrence of each path, in order.
RECURSIVE UniquePaths(_)
UniquePaths(paths) ==
    IF paths = <<>> THEN <<>>
    ELSE LET front == UniquePaths(SubSeq(paths, 1, Len(paths) - 1))
         IN  IF SetHas(front, paths[Len(paths)]) THEN front
             ELSE Append(front, paths[Len(paths)])

\* BulkLine recording the timestamp at every listing of a requested path,
\* already recorded or not.
BulkLineOverwriting(w, rawLine) ==
    LET line == IF rawLine # <<>> /\ rawLine[Len(rawLine)] = "\r"
                THEN SubSeq(rawLine, 1, Len(rawLine) - 1) ELSE rawLine
    IN  IF line = <<>>
        THEN [w EXCEPT !.currentTimestamp = Null]
        ELSE IF w.currentTimestamp = Null
        THEN IF FiniteNumber(line) # Null
             THEN [w EXCEPT !.currentTimestamp = FiniteNumber(line)]
             ELSE w
        ELSE IF w.pending = <<>>
        THEN [w EXCEPT !.stopped = TRUE]
        ELSE IF SetHas(w.pending, line) \/ MapHas(w.fileAges, line)
        THEN [w EXCEPT !.fileAges = MapSet(w.fileAges, line, w.currentTimestamp[1]),
                       !.pending = SetDelete(w.pending, line)]
        ELSE w

\* One iteration of the loop over the lines of the bulk output, on the
\* walk's state w = [pending, fileAges, currentTimestamp, stopped]; stopped
\* is the break taken once nothing is pending.
BulkLine(w, rawLine) ==
    LET line == StripCR(rawLine)
    IN  IF line = <<>>
        THEN [w EXCEPT !.currentTimestamp = Null]
        ELSE IF w.currentTimestamp = Null
        THEN IF FiniteNumber(line) # Null
             THEN [w EXCEPT !.currentTimestamp = FiniteNumber(line)]
             ELSE w
        ELSE IF w.pending = <<>>
        THEN [w EXCEPT !.stopped = TRUE]
        ELSE IF ~SetHas(w.pending, line)
        THEN w
        ELSE IF ~MapHas(w.fileAges, line)
        THEN [w EXCEPT !.fileAges = MapSet(w.fileAges, line, w.currentTimestamp[1]),
                       !.pending = SetDelete(w.pending, line)]
        ELSE w

\* The whole loop over the lines of the bulk output.
RECURSIVE BulkWalk(_, _)
BulkWalk(w, rest) ==
    IF rest = <<>> \/ w.stopped THEN w
    ELSE BulkWalk(BulkLine(w, rest[1]), Tail(rest))

\* stdout.trim().split(/\s+/).filter(Boolean), the output given by its lines,
\* each holding at most one token.
FallbackParts(out) ==
    SelectSeq([i \in 1..Len(out) |-> Trim(out[i])], LAMBDA t : t # <<>>)

\* FallbackRecord taking the first entry of the output instead of the last.
FallbackRecordFirstEntry(ages, rel, result) ==
    LET parts == FallbackParts(result.out)
    IN  IF ~result.ok THEN ages
        ELSE IF Len(parts) = 0 THEN ages
        ELSE IF FiniteNumber(parts[1]) = Null THEN ages
        ELSE MapSet(ages, rel, FiniteNumber(parts[1])[1])

\* FallbackRecord recording an age only while no age is known at all.
FallbackRecordWhileNoneKnown(ages, rel, result) ==
    LET parts == FallbackParts(result.out)
    IN  IF ~result.ok \/ ages # EmptyMap THEN ages
        ELSE IF Len(parts) = 0 THEN ages
        ELSE IF FiniteNumber(parts[Len(parts)]) = Null THEN ages
        ELSE MapSet(ages, rel, FiniteNumber(parts[Len(parts)])[1])

\* The body of the fallback loop for the path rel, given the result of its
\* query: result.ok is FALSE when run() rejects, result.out its output.
FallbackRecord(ages, rel, result) ==
    LET parts == FallbackParts(result.out)
    IN  IF ~result.ok THEN ages
        ELSE IF Len(parts) = 0 THEN ages
        ELSE IF FiniteNumber(parts[Len(parts)]) = Null THEN ages
        ELSE MapSet(ages, rel, FiniteNumber(parts[Len(parts)])[1])

\* The fallback loop over the pending paths, the results given per path.
RECURSIVE FallbackAll(_, _, _)
FallbackAll(ages, paths, results) ==
    IF paths = <<>> THEN ages
    ELSE FallbackAll(FallbackRecord(ages, paths[1], results[paths[1]]),
                     Tail(paths), results)

\* The state of the walk as the bulk query returns.
WalkStart(paths) ==
    [pending |-> UniquePaths(paths), fileAges |-> EmptyMap,
     currentTimestamp |-> Null, stopped |-> FALSE]

\* The walk's state after the bulk phase: untouched when the query fails.
AfterBulk(paths, bulk) ==
    IF bulk.ok THEN BulkWalk(WalkStart(paths), bulk.out) ELSE WalkStart(paths)

\* gatherOldestCommitTimes(repoDir, relPaths), the repository given by the
\* result of the bulk query and the results of the per-file queries.
GatherOldestCommitTimes(paths, bulk, results) ==
    LET w == AfterBulk(paths, bulk)
    IN  IF UniquePaths(paths) = <<>> THEN EmptyMap
        ELSE FallbackAll(w.fileAges, w.pending, results)

\* The queries gatherOldestCommitTimes issues: the bulk one, then one per
\* path still pending.
GatherQueries(paths, bulk, results) ==
    LET w == AfterBulk(paths, bulk)
    IN  IF UniquePaths(paths) = <<>> THEN <<>>
        ELSE <<[kind |-> "bulk", rel |-> <<>>, ok |-> bulk.ok]>>
             \o [i \in 1..Len(w.pending) |->
                    [kind |-> "follow", rel |-> w.pending[i],
                     ok |-> results[w.pending[i]].ok]]

(***************************************************************************)
(* The orderer: orderInfosByOldest, computeDirectoryAge, collectFilesByAge *)
(***************************************************************************)

\* Number.POSITIVE_INFINITY: above every timestamp.
Infinity == 1000000

\* fileAges.get(rel) ?? Number.POSITIVE_INFINITY
AgeOrInfinity(ages, rel) == IF MapHas(ages, rel) THEN ages[rel] ELSE Infinity

\* A node is a file [type, info, age] or a directory [type, children, age];
\* children is the Map of the directory, a sequence of [key, node] in
\* insertion order.
NewDir == [type |-> "dir", children |-> <<>>, age |-> Infinity]

NewFile(finfo, ages) ==
    [type |-> "file", info |-> finfo, age |-> AgeOrInfinity(ages, finfo.rel)]

\* Map.prototype.has on the children of a directory.
HasChild(children, key) == \E i \in 1..Len(children) : children[i].key = key

\* Map.prototype.get on the children of a directory.
GetChild(children, key) ==
    children[CHOOSE i \in 1..Len(children) : children[i].key = key].node

\* Map.prototype.set: a present key keeps its position, a new one goes last.
SetChild(children, key, node) ==
    IF HasChild(children, key)
    THEN [i \in 1..Len(children) |->
            IF children[i].key = key THEN [key |-> key, node |-> node] ELSE children[i]]
    ELSE Append(children, [key |-> key, node |-> node])

\* Lines 366-385: the node with the file of finfo put below it along the
\* segments left; a missing directory is made on the way.
RECURSIVE InsertInfo(_, _, _, _)
InsertInfo(node, segments, finfo, ages) ==
    IF Len(segments) = 1
    THEN [node EXCEPT !.children = SetChild(node.children, segments[1], NewFile(finfo, ages))]
    ELSE LET child == IF HasChild(node.children, segments[1])
                      THEN GetChild(node.children, segments[1])
                      ELSE NewDir
         IN  [node EXCEPT !.children =
                 SetChild(node.children, segments[1],
                          InsertInfo(child, Tail(segments), finfo, ages))]

\* Lines 364-386: the tree of the infos, put in one after the other.
RECURSIVE BuildTree(_, _)
BuildTree(list, ages) ==
    IF list = <<>> THEN NewDir
    ELSE InsertInfo(BuildTree(SubSeq(list, 1, Len(list) - 1), ages),
                    SplitSlash(list[Len(list)].rel), list[Len(list)], ages)

\* The loop of lines 331-335 without the comparison: the last child's age.
MinChildAgeOfLastChild(children) ==
    IF children = <<>> THEN Infinity ELSE children[Len(children)].node.age

\* Lines 331-335: the least age of the children, taken one after the other.
RECURSIVE MinChildAge(_)
MinChildAge(children) ==
    IF children = <<>> THEN Infinity
    ELSE LET front == MinChildAge(SubSeq(children, 1, Len(children) - 1))
             childAge == children[Len(children)].node.age
         IN  IF childAge < front THEN childAge ELSE front

\* computeDirectoryAge leaving the age of every directory as created.
ComputeDirectoryAgeSkipped(node) == node

\* computeDirectoryAge(node): the node with the age of every directory in it set.
RECURSIVE ComputeDirectoryAge(_)
ComputeDirectoryAge(node) ==
    IF node.type = "file" THEN node
    ELSE LET aged == [i \in 1..Len(node.children) |->
                        [key |-> node.children[i].key,
                         node |-> ComputeDirectoryAge(node.children[i].node)]]
         IN  [node EXCEPT !.children = aged, !.age = MinChildAge(aged)]

\* parentPath ? `${parentPath}/${segment}` : segment
ChildPath(parentPath, segment) ==
    IF parentPath # <<>> THEN parentPath \o <<"/">> \o segment ELSE segment

\* CompareEntries without the comparison of the ages.
CompareEntriesByPathOnly(a, b, parentPath) ==
    LocaleCompare(ChildPath(parentPath, a.key), ChildPath(parentPath, b.key))

\* Lines 343-352: the comparator of the entries of one directory.
CompareEntries(a, b, parentPath) ==
    IF a.node.age # b.node.age THEN a.node.age - b.node.age
    ELSE LocaleCompare(ChildPath(parentPath, a.key), ChildPath(parentPath, b.key))

RECURSIVE InsertEntry(_, _, _)
InsertEntry(sorted, x, parentPath) ==
    IF sorted = <<>> THEN <<x>>
    ELSE IF CompareEntries(sorted[Len(sorted)], x, parentPath) <= 0 THEN Append(sorted, x)
    ELSE Append(InsertEntry(SubSeq(sorted, 1, Len(sorted) - 1), x, parentPath),
                sorted[Len(sorted)])

\* entries.sort(...) of collectFilesByAge.
RECURSIVE SortEntries(_, _)
SortEntries(entries, parentPath) ==
    IF entries = <<>> THEN <<>>
    ELSE InsertEntry(SortEntries(SubSeq(entries, 1, Len(entries) - 1), parentPath),
                     entries[Len(entries)], parentPath)

\* collectFilesByAge(node, parentPath, out): the infos it pushes, in order.
\* CollectEntries is its loop over the sorted entries.
RECURSIVE CollectFilesByAge(_, _)
RECURSIVE CollectEntries(_, _)
CollectEntries(entries, parentPath) ==
    IF entries = <<>> THEN <<>>
    ELSE (IF entries[1].node.type = "file"
          THEN <<entries[1].node.info>>
          ELSE CollectFilesByAge(entries[1].node, ChildPath(parentPath, entries[1].key)))
         \o CollectEntries(Tail(entries), parentPath)

CollectFilesByAge(node, parentPath) ==
    IF node.type = "file" THEN <<>>
    ELSE CollectEntries(SortEntries(node.children, parentPath), parentPath)

\* The root of orderInfosByOldest after computeDirectoryAge(root).
AgedTree(list, ages) == ComputeDirectoryAge(BuildTree(list, ages))

\* orderInfosByOldest(infos, fileAges)
OrderInfosByOldest(list, ages) == CollectFilesByAge(AgedTree(list, ages), <<>>)

(***************************************************************************)
(* buildHtml, as far as the rendered list                                  *)
(***************************************************************************)

\* infos.filter(info => info.decision.include)
IncludedInfos(list) == SelectSeq(list, LAMBDA x : x.decision.include)

Readme == <<"r","e","a","d","m","e">>

\* Lines 449-451: the test of the README scan on one rel.
IsTopLevelReadme(rel) ==
    /\ ~Includes(rel, <<"/">>)
    /\ \/ ToLowerCase(rel) = Readme
       \/ StartsWith(ToLowerCase(rel), Readme \o <<".">>)

\* The README scan without its break: the index of the last match.
FindLastTopLevelReadme(list) ==
    LET hits == { i \in 1..Len(list) : IsTopLevelReadme(list[i].rel) }
    IN  IF hits = {} THEN -1
        ELSE (CHOOSE i \in hits : \A j \in hits : i >= j) - 1

\* Lines 447-455: topLevelReadmeIndex, counted from 0; -1 when none matches.
FindTopLevelReadme(list) ==
    LET hits == { i \in 1..Len(list) : IsTopLevelReadme(list[i].rel) }
    IN  IF hits = {} THEN -1
        ELSE (CHOOSE i \in hits : \A j \in hits : i <= j) - 1

\* RelocateReadme with the unshift but without the splice.
RelocateReadmeWithoutSplice(list) ==
    IF FindTopLevelReadme(list) > 0
    THEN <<list[FindTopLevelReadme(list) + 1]>> \o list
    ELSE list

\* Lines 456-459: splice(index, 1) and unshift when the index is above 0.
RelocateReadme(list) ==
    LET index == FindTopLevelReadme(list)
    IN  IF index > 0
        THEN <<list[index + 1]>> \o SubSeq(list, 1, index) \o SubSeq(list, index + 2, Len(list))
        ELSE list

\* Lines 134-138 of collectFiles: the candidates sorted by path, then
\* decided one after the other.  found is the files in discovery order.
CollectFiles(found, max) ==
    LET candidates == SortByRel([i \in 1..Len(found) |->
                                    [rel |-> JoinSlash(found[i].segs), file |-> found[i]]])
    IN  [i \in 1..Len(candidates) |-> DecideFile(candidates[i].file, max)]

(***************************************************************************)
(* State                                                                   *)
(***************************************************************************)

VARIABLES
    cand,              \* decideFile: the file being classified
    maxBytes,          \* decideFile: the --max-bytes threshold
    info,              \* decideFile: the record returned, NoInfo before
    relPaths,          \* gatherOldestCommitTimes: its relPaths argument
    pending,           \* gatherOldestCommitTimes: the pending Set, in insertion order
    fileAges,          \* gatherOldestCommitTimes: the fileAges Map
    lines,             \* the lines of the bulk output the walk has consumed
    currentTimestamp,  \* the bulk walk's currentTimestamp
    fallbackIdx,       \* the number of pending paths the fallback loop has handled
    stdout,            \* the result of the last per-file query
    gpc,               \* gatherOldestCommitTimes: its position
    queries,           \* the history queries issued so far, in order
    infos,             \* buildHtml/orderInfosByOldest: the infos argument
    sortMode,          \* buildHtml: "age" or "filename"
    rendered,          \* buildHtml: the rendered list
    tree,              \* orderInfosByOldest: the root node after computeDirectoryAge
    topLevelReadmeIndex, \* buildHtml: the index found by the README scan (0-based)
    bpc                \* buildHtml/orderInfosByOldest: its position

vars == <<cand, maxBytes, info, relPaths, pending, fileAges, lines,
          currentTimestamp, fallbackIdx, stdout, gpc, queries, infos, sortMode, rendered, tree,
          topLevelReadmeIndex, bpc>>

classifyVars == <<cand, maxBytes, info>>
gatherVars   == <<relPaths, pending, fileAges, lines, currentTimestamp,
                  fallbackIdx, stdout, gpc, queries>>
buildVars    == <<infos, sortMode, rendered, tree, topLevelReadmeIndex, bpc>>

NoFile == [segs |-> <<>>, content |-> <<>>, statOk |-> FALSE, openOk |-> FALSE]

NoInfo == [rel |-> <<>>, size |-> 0, decision |-> [include |-> FALSE, reason |-> "none"]]

NoResult == [ok |-> FALSE, out |-> <<>>]

NoTree == [type |-> "none", children |-> <<>>, age |-> 0]


\* The parts of the state a run does not use.
ClassifyIdle ==
    /\ cand = NoFile
    /\ maxBytes = MAX_DEFAULT_BYTES
    /\ info = NoInfo

GatherIdle ==
    /\ relPaths = <<>>
    /\ pending = <<>>
    /\ fileAges = EmptyMap
    /\ lines = <<>>
    /\ currentTimestamp = Null
    /\ fallbackIdx = 0
    /\ stdout = NoResult
    /\ gpc = "idle"
    /\ queries = <<>>

BuildIdle ==
    /\ infos = <<>>
    /\ sortMode = "age"
    /\ rendered = <<>>
    /\ tree = NoTree
    /\ topLevelReadmeIndex = -1
    /\ bpc = "idle"

(***************************************************************************)
(* Classification runs: decideFile applied to one file                     *)
(***************************************************************************)

\* The paths classified, each a sequence of segments:
\*   .git  .git/config  sub/.git/HEAD  sub/.git  .git/x.csv
\*   .github/x  a.git/x  .gitignore  git
\*   data.csv  DATA.CSV  x.json  k.pem  .csv  d.csv/a.txt  a.txt  p.html  p.png
ClassifyPaths ==
    { <<DotGit>>,
      <<DotGit, <<"c","o","n","f","i","g">>>>,
      <<<<"s","u","b">>, DotGit, <<"H","E","A","D">>>>,
      <<<<"s","u","b">>, DotGit>>,
      <<DotGit, <<"x",".","c","s","v">>>>,
      <<<<".","g","i","t","h","u","b">>, <<"x">>>>,
      <<<<"a",".","g","i","t">>, <<"x">>>>,
      <<<<".","g","i","t","i","g","n","o","r","e">>>>,
      <<<<"g","i","t">>>>,
      <<<<"d","a","t","a",".","c","s","v">>>>,
      <<<<"D","A","T","A",".","C","S","V">>>>,
      <<<<"x",".","j","s","o","n">>>>,
      <<<<"k",".","p","e","m">>>>,
      <<<<".","c","s","v">>>>,
      <<<<"d",".","c","s","v">>, <<"a",".","t","x","t">>>>,
      <<<<"a",".","t","x","t">>>>,
      <<<<"p",".","h","t","m","l">>>>,
      <<<<"p",".","p","n","g">>>> }

\* The contents classified: empty; plain text of 40KB, 50KB, 50KB + 1 and
\* 60KB; 60KB starting with a zero byte; a zero byte just after the bytes
\* read; a two-byte character across the end of the bytes read, and one
\* ending exactly there; an ill-formed byte.
ClassifyContents ==
    { <<>>,
      <<[kind |-> "ascii", n |-> 40960]>>,
      <<[kind |-> "ascii", n |-> 51200]>>,
      <<[kind |-> "ascii", n |-> 51201]>>,
      <<[kind |-> "ascii", n |-> 61440]>>,
      <<[kind |-> "zero", n |-> 1], [kind |-> "ascii", n |-> 61439]>>,
      <<[kind |-> "ascii", n |-> 8192], [kind |-> "zero", n |-> 1]>>,
      <<[kind |-> "ascii", n |-> 8191], [kind |-> "multi2", n |-> 1]>>,
      <<[kind |-> "ascii", n |-> 8190], [kind |-> "multi2", n |-> 1]>>,
      <<[kind |-> "ascii", n |-> 5], [kind |-> "bad", n |-> 1]>> }

ClassifyFiles ==
    [segs : ClassifyPaths, content : ClassifyContents,
     statOk : BOOLEAN, openOk : BOOLEAN]

\* --max-bytes: the default, and two other positive values.
MaxBytesChoices == {MAX_DEFAULT_BYTES, 1, 61440}

InitClassify ==
    /\ cand \in ClassifyFiles
    /\ maxBytes \in MaxBytesChoices
    /\ info = NoInfo
    /\ GatherIdle
    /\ BuildIdle

\* One call of decideFile.
Decide ==
    /\ info = NoInfo
    /\ info' = DecideFile(cand, maxBytes)
    /\ UNCHANGED <<cand, maxBytes, gatherVars, buildVars>>

NextClassify == Decide

SpecClassify == InitClassify /\ [][NextClassify]_vars

(***************************************************************************)
(* History runs: gatherOldestCommitTimes, one step per line of the bulk    *)
(* output and per fallback query                                           *)
(***************************************************************************)

\* The most lines of bulk output a run walks.
MaxLines == 5

\* The most lines a per-file query prints.
MaxFallbackLines == 2

FileATxt == <<"a",".","t","x","t">>

\* A file whose name is a number.
FileSeven == <<"7">>

\* The relPaths arguments: none, one path, one path twice, two paths.
AgeRelPaths ==
    { <<>>, <<FileATxt>>, <<FileATxt, FileATxt>>, <<FileATxt, FileSeven>> }

\* The lines of bulk output: the empty line, the timestamps 50 and 100 (the
\* latter with a carriage return), the two paths, a line of one space.
BulkLines ==
    { <<>>, <<"5","0">>, <<"1","0","0","\r">>, FileATxt, FileSeven, <<" ">> }

\* The lines of per-file output: two timestamps and a token that is none.
FallbackLines == { <<"5","0">>, <<"1","0","0">>, <<"x">> }

\* The sequences over S of length at most n.
SeqsUpTo(S, n) == UNION { [1..k -> S] : k \in 0..n }

\* The results of a per-file query: run() rejects, or resolves with output.
FallbackResults ==
    {NoResult} \cup [ok : {TRUE}, out : SeqsUpTo(FallbackLines, MaxFallbackLines)]

InitAges ==
    /\ relPaths \in AgeRelPaths
    /\ pending = <<>>
    /\ fileAges = EmptyMap
    /\ lines = <<>>
    /\ currentTimestamp = Null
    /\ fallbackIdx = 0
    /\ stdout = NoResult
    /\ gpc = "start"
    /\ queries = <<>>
    /\ ClassifyIdle
    /\ BuildIdle

\* Lines 264-268: the Set and the Map are made; nothing to do returns at once.
GatherBegin ==
    /\ gpc = "start"
    /\ pending' = WalkStart(relPaths).pending
    /\ fileAges' = WalkStart(relPaths).fileAges
    /\ gpc' = IF WalkStart(relPaths).pending = <<>> THEN "done" ELSE "bulk"
    /\ UNCHANGED <<relPaths, lines, currentTimestamp, fallbackIdx, stdout, queries,
                   classifyVars, buildVars>>

\* Lines 271-275 and 299: the bulk query rejects and the catch swallows it.
BulkFails ==
    /\ gpc = "bulk"
    /\ queries' = Append(queries, [kind |-> "bulk", rel |-> <<>>, ok |-> FALSE])
    /\ gpc' = "fallback"
    /\ UNCHANGED <<relPaths, pending, fileAges, lines, currentTimestamp, fallbackIdx,
                   stdout, classifyVars, buildVars>>

\* Lines 271-277: the bulk query resolves.
BulkSucceeds ==
    /\ gpc = "bulk"
    /\ queries' = Append(queries, [kind |-> "bulk", rel |-> <<>>, ok |-> TRUE])
    /\ lines' = <<>>
    /\ currentTimestamp' = Null
    /\ gpc' = "walk"
    /\ UNCHANGED <<relPaths, pending, fileAges, fallbackIdx, stdout,
                   classifyVars, buildVars>>

\* Lines 278-298: one iteration of the loop, on the next line of the output.
WalkLine ==
    /\ gpc = "walk"
    /\ Len(lines) < MaxLines
    /\ \E rawLine \in BulkLines :
         LET w == BulkLine([pending |-> pending, fileAges |-> fileAges,
                            currentTimestamp |-> currentTimestamp,
                            stopped |-> FALSE], rawLine)
         IN  /\ pending' = w.pending
             /\ fileAges' = w.fileAges
             /\ currentTimestamp' = w.currentTimestamp
             /\ lines' = IF w.stopped THEN <<>> ELSE Append(lines, rawLine)
             /\ gpc' = IF w.stopped THEN "fallback" ELSE "walk"
    /\ UNCHANGED <<relPaths, fallbackIdx, stdout, queries, classifyVars, buildVars>>

\* Line 278: the output has no further line.
WalkEnd ==
    /\ gpc = "walk"
    /\ lines' = <<>>
    /\ gpc' = "fallback"
    /\ UNCHANGED <<relPaths, pending, fileAges, currentTimestamp, fallbackIdx,
                   stdout, queries, classifyVars, buildVars>>

\* Lines 304-321: the query of the next pending path and what is done with
\* its result.
FallbackQuery ==
    /\ gpc = "fallback"
    /\ fallbackIdx < Len(pending)
    /\ \E result \in FallbackResults :
         /\ stdout' = result
         /\ fileAges' = FallbackRecord(fileAges, pending[fallbackIdx + 1], result)
         /\ queries' = Append(queries, [kind |-> "follow",
                                        rel |-> pending[fallbackIdx + 1],
                                        ok |-> result.ok])
    /\ fallbackIdx' = fallbackIdx + 1
    /\ UNCHANGED <<relPaths, pending, lines, currentTimestamp, gpc,
                   classifyVars, buildVars>>

\* Lines 303 and 324: nothing (more) is pending; fileAges is returned.
GatherReturn ==
    /\ gpc = "fallback"
    /\ fallbackIdx = Len(pending)
    /\ gpc' = "done"
    /\ UNCHANGED <<relPaths, pending, fileAges, lines, currentTimestamp, fallbackIdx,
                   stdout, queries, classifyVars, buildVars>>

NextAges ==
    \/ GatherBegin
    \/ BulkFails
    \/ BulkSucceeds
    \/ WalkLine
    \/ WalkEnd
    \/ FallbackQuery
    \/ GatherReturn

SpecAges == InitAges /\ [][NextAges]_vars

(***************************************************************************)
(* Ordering runs: orderInfosByOldest applied to a list of included files   *)
(* and an AgeRecord; and render runs: buildHtml up to the rendered list    *)
(***************************************************************************)

\* The most files a run discovers.
MaxFiles == 3

TextContent == <<[kind |-> "ascii", n |-> 10]>>

TextFile(path) == [segs |-> path, content |-> TextContent, statOk |-> TRUE, openOk |-> TRUE]

DirB == <<"b">>

\* The files of the modelled repositories of render runs:
\*   a.txt  A.txt  b/c.txt  b/d.txt  apple.md
\*   README.md  readme  readmex  sub/README.md  big.csv (60KB, too_large)
BuildFiles ==
    { TextFile(<<FileATxt>>),
      TextFile(<< <<"A",".","t","x","t">> >>),
      TextFile(<<DirB, <<"c",".","t","x","t">>>>),
      TextFile(<<DirB, <<"d",".","t","x","t">>>>),
      TextFile(<< <<"a","p","p","l","e",".","m","d">> >>),
      TextFile(<< <<"R","E","A","D","M","E",".","m","d">> >>),
      TextFile(<< <<"r","e","a","d","m","e">> >>),
      TextFile(<< <<"r","e","a","d","m","e","x">> >>),
      TextFile(<< <<"s","u","b">>, <<"R","E","A","D","M","E",".","m","d">> >>),
      [segs |-> << <<"b","i","g",".","c","s","v">> >>,
       content |-> <<[kind |-> "ascii", n |-> 61440]>>,
       statOk |-> TRUE, openOk |-> TRUE] }

\* The files of ordering runs: those, and Zebra.md and b/e/f.txt.
OrderFiles ==
    BuildFiles \cup
    { TextFile(<< <<"Z","e","b","r","a",".","m","d">> >>),
      TextFile(<<DirB, <<"e">>, <<"f",".","t","x","t">>>>) }

\* The files found, in the order of their discovery: no file twice.
Discoveries(files) ==
    { found \in SeqsUpTo(files, MaxFiles) :
        \A i, j \in 1..Len(found) : found[i] = found[j] => i = j }

\* The infos collectFiles returns for them.
BuildInfos == { CollectFiles(found, MAX_DEFAULT_BYTES) : found \in Discoveries(BuildFiles) }

\* The lists orderInfosByOldest is applied to: the included infos.
OrderInfoLists ==
    { IncludedInfos(CollectFiles(found, MAX_DEFAULT_BYTES)) : found \in Discoveries(OrderFiles) }

\* The timestamps of the modelled histories.
Timestamps == {50, 100}

\* The AgeRecords over the paths of a list: any of them with any timestamp.
AgeRecords(list) ==
    UNION { [known -> Timestamps] : known \in SUBSET { list[i].rel : i \in 1..Len(list) } }

InitOrder ==
    /\ infos \in OrderInfoLists
    /\ fileAges \in AgeRecords(infos)
    /\ sortMode = "age"
    /\ rendered = <<>>
    /\ tree = NoTree
    /\ topLevelReadmeIndex = -1
    /\ bpc = "order"
    /\ relPaths = <<>>
    /\ pending = <<>>
    /\ lines = <<>>
    /\ currentTimestamp = Null
    /\ fallbackIdx = 0
    /\ stdout = NoResult
    /\ gpc = "idle"
    /\ queries = <<>>
    /\ ClassifyIdle

\* One call of orderInfosByOldest(infos, fileAges).
OrderInfos ==
    /\ bpc = "order"
    /\ LET root == AgedTree(infos, fileAges)
       IN  /\ tree' = root
           /\ rendered' = CollectFilesByAge(root, <<>>)
    /\ bpc' = "ordered"
    /\ UNCHANGED <<infos, sortMode, topLevelReadmeIndex, classifyVars, gatherVars>>

NextOrder == OrderInfos

SpecOrder == InitOrder /\ [][NextOrder]_vars

\* The results of the bulk query in a render run: it fails, it prints
\* nothing, or it prints one revision at 50 that lists the first path.
BuildBulkResults(paths) ==
    { NoResult, [ok |-> TRUE, out |-> <<>>] }
    \cup { [ok |-> TRUE, out |-> << <<"5","0">>, paths[i] >>] : i \in 1..Len(paths) \cap {1} }

\* The results of a per-file query in a render run: it fails, or prints one
\* timestamp.
BuildFallbackResults ==
    { NoResult, [ok |-> TRUE, out |-> << <<"5","0">> >>],
      [ok |-> TRUE, out |-> << <<"1","0","0">> >>] }

\* rendered.map(info => info.rel)
Rels(list) == [i \in 1..Len(list) |-> list[i].rel]

InitBuild ==
    /\ infos \in BuildInfos
    /\ sortMode \in {"age", "filename"}
    /\ rendered = <<>>
    /\ tree = NoTree
    /\ topLevelReadmeIndex = -1
    /\ bpc = "start"
    /\ GatherIdle
    /\ ClassifyIdle

\* Line 432: the included infos.
Filter ==
    /\ bpc = "start"
    /\ rendered' = IncludedInfos(infos)
    /\ bpc' = "filtered"
    /\ UNCHANGED <<infos, sortMode, tree, topLevelReadmeIndex, classifyVars, gatherVars>>

\* Lines 438-441: age mode, with the queries of gatherOldestCommitTimes
\* answered by the repository.
SortByAge ==
    /\ bpc = "filtered"
    /\ Len(rendered) > 0
    /\ sortMode = "age"
    /\ \E bulk \in BuildBulkResults(Rels(rendered)) :
       \E results \in [{ rendered[i].rel : i \in 1..Len(rendered) } -> BuildFallbackResults] :
         LET fileAgeMap == GatherOldestCommitTimes(Rels(rendered), bulk, results)
             root == AgedTree(rendered, fileAgeMap)
         IN  /\ relPaths' = Rels(rendered)
             /\ queries' = GatherQueries(Rels(rendered), bulk, results)
             /\ fileAges' = fileAgeMap
             /\ tree' = root
             /\ rendered' = CollectFilesByAge(root, <<>>)
    /\ gpc' = "done"
    /\ bpc' = "sorted"
    /\ UNCHANGED <<infos, sortMode, topLevelReadmeIndex, pending, lines,
                   currentTimestamp, fallbackIdx, stdout, classifyVars>>

\* Filename mode with gatherOldestCommitTimes called all the same.
SortByFilenameAfterGather ==
    /\ bpc = "filtered"
    /\ Len(rendered) > 0
    /\ sortMode # "age"
    /\ queries' = GatherQueries(Rels(rendered), NoResult,
                     [r \in { rendered[i].rel : i \in 1..Len(rendered) } |-> NoResult])
    /\ rendered' = SortByRel(rendered)
    /\ bpc' = "sorted"
    /\ UNCHANGED <<infos, sortMode, tree, topLevelReadmeIndex, classifyVars,
                   relPaths, pending, fileAges, lines, currentTimestamp,
                   fallbackIdx, stdout, gpc>>

\* Lines 442-444: filename mode.
SortByFilename ==
    /\ bpc = "filtered"
    /\ Len(rendered) > 0
    /\ sortMode # "age"
    /\ rendered' = SortByRel(rendered)
    /\ bpc' = "sorted"
    /\ UNCHANGED <<infos, sortMode, tree, topLevelReadmeIndex, classifyVars, gatherVars>>

\* Line 438: nothing is rendered, nothing is sorted.
SortNothing ==
    /\ bpc = "filtered"
    /\ Len(rendered) = 0
    /\ bpc' = "sorted"
    /\ UNCHANGED <<infos, sortMode, rendered, tree, topLevelReadmeIndex,
                   classifyVars, gatherVars>>

\* Lines 447-459: the README scan and the relocation.
MoveReadme ==
    /\ bpc = "sorted"
    /\ topLevelReadmeIndex' = FindTopLevelReadme(rendered)
    /\ rendered' = RelocateReadme(rendered)
    /\ bpc' = "done"
    /\ UNCHANGED <<infos, sortMode, tree, classifyVars, gatherVars>>

NextBuild ==
    \/ Filter
    \/ SortByAge
    \/ SortByFilename
    \/ SortNothing
    \/ MoveReadme

SpecBuild == InitBuild /\ [][NextBuild]_vars

(***************************************************************************)
(* Properties of the classifier                                            *)
(***************************************************************************)

\* decideFile has returned.
Decided == info.decision.reason # "none"

\* Some segment of the path is exactly ".git".
HasGitSegment(segs) == \E i \in 1..Len(segs) : segs[i] = DotGit

\* C9: decideFile answers "ignored" (excluded) for exactly the candidates
\* with a path segment equal to ".git" at any depth, the last one included.
C9_IgnoredIffGitSegment ==
    Decided =>
        /\ (info.decision.reason = "ignored") <=> HasGitSegment(cand.segs)
        /\ info.decision.reason = "ignored" => ~info.decision.include

\* The last segment ends, whatever the letter case, with the extension e
\* and has at least one character before it.
EndsWithExtension(segs, e) ==
    LET base == segs[Len(segs)]
    IN  /\ Len(base) > Len(e)
        /\ ToLowerCase(SubSeq(base, Len(base) - Len(e) + 1, Len(base))) = e

HasLargeDataExtension(segs) ==
    \E e \in { <<".","c","s","v">>, <<".","j","s","o","n">>, <<".","p","e","m">> } :
        EndsWithExtension(segs, e)

DataCsv == << <<"d","a","t","a",".","c","s","v">> >>

\* C10: a candidate that is not ignored is too_large, and excluded, exactly
\* when it has a large-data extension and its size is strictly above
\* maxBytes, whatever its content; a 40KB data.csv under 51200 is included
\* as ok and a 60KB one is too_large.
C10_TooLargeIffLargeDataOverMax ==
    (Decided /\ info.decision.reason # "ignored") =>
        /\ (info.decision.reason = "too_large")
              <=> (HasLargeDataExtension(cand.segs) /\ info.size > maxBytes)
        /\ info.size = (IF cand.statOk THEN ContentBytes(cand.content) ELSE 0)
        /\ info.decision.reason = "too_large" => ~info.decision.include
        /\ info.decision.reason # "too_large" => info.decision.include
        /\ (/\ cand.segs = DataCsv
            /\ cand.content = <<[kind |-> "ascii", n |-> 40960]>>
            /\ cand.statOk /\ cand.openOk
            /\ maxBytes = 51200)
              => (info.decision.include /\ info.decision.reason = "ok")
        /\ (/\ cand.segs = DataCsv
            /\ cand.content = <<[kind |-> "ascii", n |-> 61440]>>
            /\ cand.statOk
            /\ maxBytes = 51200)
              => info.decision.reason = "too_large"

\* A large-data file over the threshold whose first byte is zero has been
\* classified too_large.
C10_Witness ==
    /\ Decided
    /\ info.decision.reason = "too_large"
    /\ ZeroInBuffer(cand.content)
    /\ HasLargeDataExtension(cand.segs)

HasForceTextExtension(segs) ==
    \E e \in { <<".","h","t","m","l">>, <<".","h","t","m">>,
               <<".","x","h","t","m","l">>, <<".","s","h","t","m","l">> } :
        EndsWithExtension(segs, e)

HasBinaryExtension(segs) == \E e \in BINARY_EXTENSIONS : EndsWithExtension(segs, e)

\* The number of bytes of the content that are inspected: its first 8192.
Inspected(content) ==
    IF ContentBytes(content) > 8192 THEN 8192 ELSE ContentBytes(content)

\* The inspected bytes hold a zero byte.
PrefixHasZero(content) ==
    \E i \in 1..Len(content) :
        /\ content[i].kind = "zero"
        /\ content[i].n > 0
        /\ RunStart(content, i) < Inspected(content)

\* The inspected bytes are not UTF-8: an ill-formed byte is among them, or
\* a multi-byte character begins among them and ends after them.
PrefixNotUtf8(content) ==
    \E i \in 1..Len(content) :
        \/ /\ content[i].kind = "bad"
           /\ content[i].n > 0
           /\ RunStart(content, i) < Inspected(content)
        \/ /\ content[i].kind \in {"multi2", "multi3"}
           /\ \E j \in 1..content[i].n :
                LET first == RunStart(content, i) + (j - 1) * UnitBytes(content[i].kind)
                IN  /\ first < Inspected(content)
                    /\ first + UnitBytes(content[i].kind) > Inspected(content)

ZeroFirst == <<[kind |-> "zero", n |-> 1], [kind |-> "ascii", n |-> 61439]>>

\* C11: a candidate that is neither ignored nor too_large is included, as
\* "ok" with a force-text extension whatever its content, else as "binary"
\* with an extension of the binary deny-list, else (its content readable)
\* as "binary" exactly when its first 8192 bytes hold a zero byte or are
\* not UTF-8, and as "ok" otherwise; a.txt with a zero byte is "binary",
\* and a binary file is included.
C11_ReasonByPrecedence ==
    (Decided /\ info.decision.reason \notin {"ignored", "too_large"}) =>
        /\ info.decision.include
        /\ info.decision.reason \in {"ok", "binary"}
        /\ HasForceTextExtension(cand.segs) => info.decision.reason = "ok"
        /\ (~HasForceTextExtension(cand.segs) /\ HasBinaryExtension(cand.segs))
              => info.decision.reason = "binary"
        /\ (/\ ~HasForceTextExtension(cand.segs)
            /\ ~HasBinaryExtension(cand.segs)
            /\ cand.openOk)
              => ((info.decision.reason = "binary")
                     <=> (PrefixHasZero(cand.content) \/ PrefixNotUtf8(cand.content)))
        /\ (cand.segs = <<FileATxt>> /\ cand.content = ZeroFirst /\ cand.openOk)
              => info.decision.reason = "binary"

\* p.html, readable and with a zero byte first, has been classified "ok".
C11_Witness ==
    /\ Decided
    /\ cand.segs = << <<"p",".","h","t","m","l">> >>
    /\ cand.openOk
    /\ cand.content = ZeroFirst
    /\ info.decision = [include |-> TRUE, reason |-> "ok"]

\* a.txt with a zero byte first has been classified "binary" and included.
C11_TextWithZeroIsBinary ==
    /\ Decided
    /\ cand.segs = <<FileATxt>>
    /\ cand.openOk
    /\ cand.content = ZeroFirst
    /\ info.decision = [include |-> TRUE, reason |-> "binary"]

\* C12: a candidate that is neither ignored nor too_large and whose
\* content cannot be opened or read is "binary", never "ok", whatever its
\* extension; decideFile raises no error on a stat or read failure, and a
\* stat failure only sets the size to 0.
C12_UnreadableIsBinary ==
    /\ ~Decided => ENABLED Decide
    /\ (Decided /\ ~cand.statOk) => info.size = 0
    /\ (Decided /\ info.decision.reason \notin {"ignored", "too_large"} /\ ~cand.openOk)
          => info.decision.reason = "binary"

\* The whole content is well-formed UTF-8 without a zero byte.
ValidUtf8WithoutZero(content) ==
    \A i \in 1..Len(content) :
        content[i].n > 0 => content[i].kind \in {"ascii", "multi2", "multi3"}

\* C16: a readable file without a binary deny-list extension whose whole
\* content is valid UTF-8 without a zero byte is never "binary", whatever
\* its length: also when it is longer than 8192 bytes and a multi-byte
\* character lies across the end of the 8192 bytes inspected.
C16_ValidUtf8NeverBinary ==
    (/\ Decided
     /\ cand.openOk
     /\ ~HasBinaryExtension(cand.segs)
     /\ ValidUtf8WithoutZero(cand.content))
        => info.decision.reason # "binary"

(***************************************************************************)
(* Properties of the history age resolver                                  *)
(***************************************************************************)

\* The paths gatherOldestCommitTimes is asked about.
Requested == { relPaths[i] : i \in 1..Len(relPaths) }

\* Line i of the bulk output walked so far, without its carriage return.
LineText(i) == StripCR(lines[i])

\* The first line of the revision block that holds line i: the run of
\* non-empty lines around it.
BlockStart(i) ==
    CHOOSE j \in 1..i :
        /\ \A m \in j..i : LineText(m) # <<>>
        /\ j = 1 \/ LineText(j - 1) = <<>>

\* The timestamp line of the block of line i as far as line i is concerned:
\* the first line of the block, before i, that reads as a finite number;
\* 0 when the block has no valid timestamp before line i.
TimestampLine(i) ==
    LET valid == { k \in BlockStart(i)..(i - 1) : FiniteNumber(LineText(k)) # Null }
    IN  IF valid = {} THEN 0 ELSE CHOOSE k \in valid : \A m \in valid : k <= m

\* Line i lists the path p in a revision block with a valid timestamp.
Listed(p, i) ==
    /\ LineText(i) = p
    /\ TimestampLine(i) > 0

\* The timestamp of the block that lists p at line i.
ListedTimestamp(i) == FiniteNumber(LineText(TimestampLine(i)))[1]

ListingLines(p) == { i \in 1..Len(lines) : Listed(p, i) }

FirstListing(p) == CHOOSE i \in ListingLines(p) : \A m \in ListingLines(p) : i <= m

\* During the walk: a requested path listed under a valid timestamp has the
\* timestamp of its first listing as its age, and a path is pending exactly
\* while it has no age.
C5_WalkState ==
    gpc = "walk" =>
        \A p \in Requested :
            /\ ListingLines(p) # {} =>
                 /\ MapHas(fileAges, p)
                 /\ fileAges[p] = ListedTimestamp(FirstListing(p))
            /\ MapHas(fileAges, p) <=> ~SetHas(pending, p)

\* A step of the bulk phase leaves every recorded age as it is, and removes
\* from pending exactly the paths whose age it records.
C5_WalkStep ==
    (gpc = "walk") =>
        /\ \A p \in DOMAIN fileAges : MapHas(fileAges', p) /\ fileAges'[p] = fileAges[p]
        /\ \A p \in Requested :
              (SetHas(pending, p) /\ ~SetHas(pending', p))
                  <=> (~MapHas(fileAges, p) /\ MapHas(fileAges', p))

IsTimestampLine(l) == l \in { <<"5","0">>, <<"1","0","0">> }

TimestampOf(l) == IF l = <<"5","0">> THEN 50 ELSE 100

\* The per-file queries issued so far, in order.
FollowQueries == SelectSeq(queries, LAMBDA q : q.kind = "follow")

\* gatherOldestCommitTimes is at a position of its code and, until it has
\* returned, has a next step: no outcome of a query stops it.
C6_NeverFails ==
    /\ gpc \in {"start", "bulk", "walk", "fallback", "done"}
    /\ gpc # "done" => ENABLED NextAges

\* When the bulk query has failed, every requested path is pending as the
\* fallback phase starts and no age is recorded.
C6_BulkFailureLeavesAllPending ==
    (gpc = "fallback" /\ fallbackIdx = 0 /\ queries[1].ok = FALSE) =>
        /\ { pending[i] : i \in 1..Len(pending) } = Requested
        /\ fileAges = EmptyMap

\* The path just queried: its age is the timestamp of the last entry of the
\* output when the query succeeded and that entry is a timestamp; it has no
\* age when the query failed.
C6_LastEntryRecorded ==
    (gpc = "fallback" /\ fallbackIdx > 0) =>
        LET rel == pending[fallbackIdx]
        IN  /\ (/\ stdout.ok
                /\ stdout.out # <<>>
                /\ IsTimestampLine(stdout.out[Len(stdout.out)]))
                  => (/\ MapHas(fileAges, rel)
                      /\ fileAges[rel] = TimestampOf(stdout.out[Len(stdout.out)]))
            /\ ~stdout.ok => ~MapHas(fileAges, rel)

\* On return: one query per path that was pending after the bulk phase, in
\* order, one bulk query before them, and no age for a path whose query
\* failed.
C6_OnReturn ==
    gpc = "done" =>
        /\ Len(FollowQueries) = Len(pending)
        /\ \A i \in 1..Len(pending) : FollowQueries[i].rel = pending[i]
        /\ \A i, j \in 1..Len(pending) : pending[i] = pending[j] => i = j
        /\ \A i \in 1..Len(FollowQueries) :
              ~FollowQueries[i].ok => ~MapHas(fileAges, FollowQueries[i].rel)
        /\ (queries # <<>> /\ ~queries[1].ok) =>
              { FollowQueries[i].rel : i \in 1..Len(FollowQueries) } = Requested

\* A per-file query that fails changes no age.
C6_FailureStep ==
    (gpc = "fallback" /\ fallbackIdx' = fallbackIdx + 1 /\ ~stdout'.ok)
        => fileAges' = fileAges

IsNumeral(l) ==
    /\ Trim(l) # <<>>
    /\ \A k \in 1..Len(Trim(l)) : IndexIn(Digits, Trim(l)[k]) > 0

\* Line i lists the path p below the first line of its revision block.
ListedInBlock(p, i) == LineText(i) = p /\ BlockStart(i) < i

\* In the bulk phase every recorded age is the timestamp line of a revision
\* block that lists the path: the block's first line, a number.  A block
\* whose first line is none records nothing, and neither a path line nor a
\* line of white space stands in for it.
C14_BulkBlocks ==
    gpc = "walk" =>
        \A p \in DOMAIN fileAges :
            \E i \in 1..Len(lines) :
                /\ ListedInBlock(p, i)
                /\ IsNumeral(LineText(BlockStart(i)))
                /\ fileAges[p] = DecimalValue(Trim(LineText(BlockStart(i))))

\* The timestamps among the lines of the output of a per-file query.
ValidTimestamps(out) ==
    { DecimalValue(Trim(out[k])) : k \in { n \in 1..Len(out) : IsNumeral(out[n]) } }

\* In the fallback phase the path just queried has an age, one of the valid
\* timestamps of its output, whenever the output holds one, malformed
\* tokens among them or not.
C14_FallbackTokens ==
    (gpc = "fallback" /\ fallbackIdx > 0 /\ stdout.ok
       /\ ValidTimestamps(stdout.out) # {})
        => /\ MapHas(fileAges, pending[fallbackIdx])
           /\ fileAges[pending[fallbackIdx]] \in ValidTimestamps(stdout.out)

\* C14: malformed or missing timestamp tokens are ignored for their entry
\* only: in the bulk phase a revision block whose timestamp line is not a
\* number records no age (no path line or white-space line of it is taken
\* as the timestamp) and other blocks are unaffected; in the fallback phase
\* a malformed token does not keep the path's age from being taken from the
\* valid timestamps of its output.
C14_MalformedTokensIgnored == C14_BulkBlocks /\ C14_FallbackTokens

\* The paths pending as the fallback phase starts.
PendingPaths == { pending[i] : i \in 1..Len(pending) }

\* The orders in which the per-file queries of the pending paths can be
\* issued and completed.
QueryOrders ==
    { q \in [1..Len(pending) -> PendingPaths] :
        \A i, j \in 1..Len(pending) : q[i] = q[j] => i = j }

\* As the fallback phase starts: whatever the queries return, every order
\* of them leaves the same AgeRecord.
C15_AnyOrder ==
    (gpc = "fallback" /\ fallbackIdx = 0) =>
        \A results \in [PendingPaths -> FallbackResults] :
            \A q \in QueryOrders :
                FallbackAll(fileAges, q, results) = FallbackAll(fileAges, pending, results)

\* A step of the fallback phase queries a path without an age, writes at
\* most the entry of that path and leaves every other entry as it is.
C15_FallbackStep ==
    (gpc = "fallback" /\ fallbackIdx' = fallbackIdx + 1) =>
        /\ ~MapHas(fileAges, pending[fallbackIdx + 1])
        /\ queries'[Len(queries')].rel = pending[fallbackIdx + 1]
        /\ DOMAIN fileAges' \subseteq (DOMAIN fileAges) \cup {pending[fallbackIdx + 1]}
        /\ \A p \in DOMAIN fileAges : MapHas(fileAges', p) /\ fileAges'[p] = fileAges[p]

\* C15: the fallback phase is order-insensitive: every order of the
\* per-file queries of the pending paths gives the same AgeRecord; each
\* step writes at most the entry of its own path and changes no other, in
\* particular none recorded by the bulk phase, and only paths without a
\* bulk-phase entry are queried.
C15_FallbackOrderInsensitive == [](C15_AnyOrder) /\ [][C15_FallbackStep]_vars

\* Two paths have been queried one after the other, the first got 50 and
\* the second 100.
C15_Witness ==
    /\ gpc = "done"
    /\ Len(FollowQueries) = 2
    /\ FollowQueries[1].rel = FileATxt
    /\ FollowQueries[2].rel = FileSeven
    /\ DOMAIN fileAges = {FileATxt, FileSeven}
    /\ fileAges[FileATxt] = 50
    /\ fileAges[FileSeven] = 100

\* The bulk phase has recorded a.txt, and the fallback phase has queried
\* the other path alone and recorded it too.
C15_BulkAgeKept ==
    /\ gpc = "done"
    /\ queries # <<>>
    /\ queries[1].ok
    /\ Len(FollowQueries) = 1
    /\ FollowQueries[1].rel = FileSeven
    /\ DOMAIN fileAges = {FileATxt, FileSeven}
    /\ fileAges[FileATxt] = 100
    /\ fileAges[FileSeven] = 50

(***************************************************************************)
(* Properties of the orderer                                               *)
(***************************************************************************)

PathATxt == FileATxt

PathBC == <<"b","/","c",".","t","x","t">>

PathBD == <<"b","/","d",".","t","x","t">>

\* The repo-relative paths of a list of infos, in order.
RelsOf(list) == [i \in 1..Len(list) |-> list[i].rel]

\* The position of the path rel in the rendered list.
RenderedAt(rel) == CHOOSE i \in 1..Len(rendered) : rendered[i].rel = rel

\* orderInfosByOldest has returned for a.txt, b/c.txt and b/d.txt with the
\* AgeRecord {a.txt: 100, b/c.txt: 50}.
C1_Case ==
    /\ bpc = "ordered"
    /\ { infos[i].rel : i \in 1..Len(infos) } = {PathATxt, PathBC, PathBD}
    /\ DOMAIN fileAges = {PathATxt, PathBC}
    /\ fileAges[PathATxt] = 100
    /\ fileAges[PathBC] = 50

\* C1 as stated: b/c.txt before a.txt, and a.txt before b/d.txt.
C1_AsStated ==
    C1_Case =>
        /\ RenderedAt(PathBC) < RenderedAt(PathATxt)
        /\ RenderedAt(PathATxt) < RenderedAt(PathBD)

\* C1, amended: with AgeRecord {a.txt: 100, b/c.txt: 50} and no entry for
\* b/d.txt the order is b/c.txt, b/d.txt, a.txt: directory b (age 50) is
\* emitted whole, b/d.txt last within it, before a.txt (age 100).
C1_DirectoryEmittedWhole ==
    C1_Case => RelsOf(rendered) = <<PathBC, PathBD, PathATxt>>

C1_Witness == C1_Case /\ Len(rendered) = 3

\* b has the same elements as a, each as often: with a free of duplicates,
\* every element of a exactly once and nothing else.
IsPermutationOf(b, a) ==
    /\ Len(b) = Len(a)
    /\ \A i \in 1..Len(a) : Cardinality({ j \in 1..Len(b) : b[j] = a[i] }) = 1

\* C2: in both sort modes the rendered list, after the sort or traversal
\* and after the README relocation, holds exactly the included infos, each
\* once.
C2_RenderedIsPermutation ==
    bpc \in {"sorted", "done"} => IsPermutationOf(rendered, IncludedInfos(infos))

\* An age-mode render of three files, one of them excluded, has moved a
\* README to the front.
C2_Witness ==
    /\ bpc = "done"
    /\ sortMode = "age"
    /\ Len(infos) = 3
    /\ Len(rendered) = 2
    /\ topLevelReadmeIndex = 1
    /\ rendered # IncludedInfos(infos)

\* The segments of a repo-relative path.
Segs(rel) == SplitSlash(rel)

\* The number of leading segments two paths share.
CommonLen(s, t) ==
    CHOOSE k \in 0..Len(s) :
        /\ k <= Len(t)
        /\ SubSeq(s, 1, k) = SubSeq(t, 1, k)
        /\ k = Len(s) \/ k = Len(t) \/ s[k + 1] # t[k + 1]

\* The age of a path of the AgeRecord, +infinity without an entry.
KnownAge(rel) == IF rel \in DOMAIN fileAges THEN fileAges[rel] ELSE Infinity

\* The ages of the files of the list below the directory with segments dir.
AgesBelow(list, dir) ==
    { KnownAge(list[i].rel) : i \in { n \in 1..Len(list) :
          /\ Len(Segs(list[n].rel)) > Len(dir)
          /\ SubSeq(Segs(list[n].rel), 1, Len(dir)) = dir } }

\* The least of a set of ages, +infinity for none.
LeastAge(S) == IF S = {} THEN Infinity ELSE CHOOSE m \in S : \A x \in S : m <= x

\* The age of the child with segments c on the way to the file with
\* segments full: the file's own age, or the least age below the directory.
ChildAge(c, full) ==
    IF Len(c) = Len(full) THEN KnownAge(JoinSlash(full))
    ELSE LeastAge(AgesBelow(infos, c))

\* Files i < j of the rendered list: where their paths part, the child
\* leading to i is not older-last: its age is at most the other's, and at
\* equal ages its full path does not sort after the other's.
C3_PairInOrder(i, j) ==
    LET s  == Segs(rendered[i].rel)
        t  == Segs(rendered[j].rel)
        k  == CommonLen(s, t)
        cs == SubSeq(s, 1, k + 1)
        ct == SubSeq(t, 1, k + 1)
    IN  /\ k < Len(s) /\ k < Len(t)
        /\ ChildAge(cs, s) <= ChildAge(ct, t)
        /\ ChildAge(cs, s) = ChildAge(ct, t)
              => LocaleCompare(JoinSlash(cs), JoinSlash(ct)) <= 0

\* The files below one directory are next to each other.
C3_Contiguous(i, j, k) ==
    LET c == CommonLen(Segs(rendered[i].rel), Segs(rendered[k].rel))
    IN  SubSeq(Segs(rendered[j].rel), 1, c) = SubSeq(Segs(rendered[i].rel), 1, c)

AppleMd == <<"a","p","p","l","e",".","m","d">>

ZebraMd == <<"Z","e","b","r","a",".","m","d">>

\* C3: the age-mode order is a depth-first traversal: at every directory
\* the children come by ascending age, children of equal age (unknown, or
\* the same timestamp) by case-insensitive comparison of their full paths,
\* and the files below one subdirectory come next to each other; apple.md
\* precedes Zebra.md when neither has an age.
C3_DepthFirstByAgeThenPath ==
    bpc = "ordered" =>
        /\ \A i, j \in 1..Len(rendered) : i < j => C3_PairInOrder(i, j)
        /\ \A i, j, k \in 1..Len(rendered) : (i < j /\ j < k) => C3_Contiguous(i, j, k)
        /\ (RelsOf(infos) = <<AppleMd, ZebraMd>> /\ fileAges = EmptyMap)
              => RelsOf(rendered) = <<AppleMd, ZebraMd>>

\* Three files are ordered: Zebra.md and apple.md with the same known
\* timestamp, apple.md first, and an older file of a subdirectory before.
C3_Witness ==
    /\ bpc = "ordered"
    /\ Len(rendered) = 3
    /\ rendered[1].rel = PathBC
    /\ rendered[2].rel = AppleMd
    /\ rendered[3].rel = ZebraMd
    /\ KnownAge(PathBC) = 50
    /\ KnownAge(AppleMd) = 100
    /\ KnownAge(ZebraMd) = 100

\* The node of the tree at the end of the path with segments segs.
RECURSIVE NodeAt(_, _)
NodeAt(node, segs) ==
    IF segs = <<>> THEN node
    ELSE NodeAt(GetChild(node.children, Head(segs)), Tail(segs))

\* The directories of the tree: the root and every proper prefix of the
\* path of an ordered file.
DirectoriesOn(list) ==
    {<<>>} \cup UNION { { SubSeq(Segs(list[i].rel), 1, k) :
                            k \in 0..(Len(Segs(list[i].rel)) - 1) } :
                        i \in 1..Len(list) }

PathBEF == <<"b","/","e","/","f",".","t","x","t">>

C8_EmptyRoot == bpc = "ordered" /\ infos = <<>> /\ tree.age = Infinity

(***************************************************************************)
(* Properties of buildHtml                                                 *)
(***************************************************************************)

\* A top-level file whose lower-cased name is readme or starts with readme.
TopLevelReadmeName(rel) ==
    /\ Len(Segs(rel)) = 1
    /\ \/ ToLowerCase(rel) = Readme
       \/ /\ Len(rel) >= 7
          /\ SubSeq(ToLowerCase(rel), 1, 7) = Readme \o <<".">>

\* The positions of the top-level readmes of a list.
ReadmePositions(list) == { i \in 1..Len(list) : TopLevelReadmeName(list[i].rel) }

\* The list without its element at position i.
WithoutAt(list, i) == SubSeq(list, 1, i - 1) \o SubSeq(list, i + 1, Len(list))

\* The relocation step: the first top-level readme of the sorted list comes
\* to the front and the others keep their order; without one the list stays.
C4_RelocationStep ==
    (bpc = "sorted" /\ bpc' = "done") =>
        LET hits == ReadmePositions(rendered)
        IN  IF hits = {} THEN rendered' = rendered
            ELSE LET first == CHOOSE i \in hits : \A j \in hits : i <= j
                 IN  rendered' = <<rendered[first]>> \o WithoutAt(rendered, first)

\* In the final order a top-level readme, if there is one, is at index 0.
C4_FinalState ==
    (bpc = "done" /\ ReadmePositions(rendered) # {}) => 1 \in ReadmePositions(rendered)

\* C4: in both sort modes the first top-level readme (no "/" in the path,
\* lower-cased name readme or readme.*) of the sorted order is at index 0
\* of the final order and every other file keeps its relative order; a
\* nested readme is never relocated, and without a top-level readme the
\* order is unchanged.
C4_FirstTopLevelReadmeMovesToFront ==
    [](C4_FinalState) /\ [][C4_RelocationStep]_vars

ReadmeMd == <<"R","E","A","D","M","E",".","m","d">>

SubReadmeMd == <<"s","u","b","/">> \o ReadmeMd

\* README.md has been moved to the front from behind a.txt, and
\* sub/README.md is rendered too and has stayed behind.
C4_Witness ==
    /\ bpc = "done"
    /\ topLevelReadmeIndex > 0
    /\ Len(rendered) = 3
    /\ rendered[1].rel = ReadmeMd
    /\ rendered[2].rel = PathATxt
    /\ rendered[3].rel = SubReadmeMd

\* The list is in ascending case-insensitive order of the paths.
SortedByRel(list) ==
    \A i, j \in 1..Len(list) : i < j => LocaleCompare(list[i].rel, list[j].rel) <= 0

\* C7: filename mode never issues a history query, bulk or per file, and
\* before the README relocation its rendered list is the included list in
\* case-insensitive lexicographic order of the paths; age mode issues
\* history queries only when the included list is not empty.
C7_FilenameModeSkipsHistory ==
    /\ sortMode = "filename" => queries = <<>>
    /\ (sortMode = "filename" /\ bpc = "sorted")
          => /\ IsPermutationOf(rendered, IncludedInfos(infos))
             /\ SortedByRel(rendered)
    /\ queries # <<>> => (sortMode = "age" /\ IncludedInfos(infos) # <<>>)

\* Filename mode has sorted three files, apple.md before README.md, and no
\* query was issued.
C7_Witness ==
    /\ sortMode = "filename"
    /\ bpc = "sorted"
    /\ queries = <<>>
    /\ Len(rendered) = 3
    /\ \E i, j \in 1..3 : i < j /\ rendered[i].rel = AppleMd /\ rendered[j].rel = ReadmeMd

\* The final order of buildHtml for the infos of a run with the given sort
\* mode and AgeRecord.
FinalOrder(list, mode, ages) ==
    LET included == IncludedInfos(list)
    IN  RelocateReadme(IF included = <<>> THEN <<>>
                       ELSE IF mode = "age" THEN OrderInfosByOldest(included, ages)
                       ELSE SortByRel(included))

\* The infos collectFiles returns when the files of this run are discovered
\* in another order.
OtherDiscoveries ==
    { other \in BuildInfos :
        { other[i] : i \in 1..Len(other) } = { infos[i] : i \in 1..Len(infos) } }

\* C13: for a given set of included files, AgeRecord and sort mode the
\* final order is the same in whatever order the files are discovered,
\* files whose paths differ only in letter case (a.txt, A.txt) included.
C13_OrderIndependentOfDiscovery ==
    bpc = "done" =>
        \A other \in OtherDiscoveries : FinalOrder(other, sortMode, fileAges) = rendered

=============================================================================
